---- MODULE Spec2Model ----
(***************************************************************************)
(* Model of daily_news_playlist.py: one run of main() against a remote     *)
(* catalogue/playlist API.  The program is sequential; every action below  *)
(* is one step of main() that reads the environment or issues one remote   *)
(* request and handles its response.  The remote playlist library is part  *)
(* of the state; search and episode-listing responses are inputs drawn at  *)
(* the time of the call.                                                   *)
(***************************************************************************)
EXTENDS Integers, Sequences, FiniteSets, TLC

None == "None"

\* ------------------------------------------------------------------------
\* Configuration of the program
\* ------------------------------------------------------------------------
PLAYLIST_NAME == "Noticias do Dia (Auto)"

NEWS_SHOW_QUERIES == <<"the news", "Resumao Diario", "Cafe da Manha", "Ao Ponto">>

SPORTS_SHOW_QUERIES == <<"Resumo do dIA ge", "CBN Esportes">>

FRESH_HOURS == 36

\* page size of the playlist listing (limit, offset = 50, 0)
limit == 50

\* "limit": 3 of the episode listing
EpisodeLimit == 3

\* episode_uris[:20]
MaxItems == 20

ShowQueries == NEWS_SHOW_QUERIES \o SPORTS_SHOW_QUERIES

NumShows == Len(ShowQueries)

\* ------------------------------------------------------------------------
\* Bounds of the model
\* ------------------------------------------------------------------------
\* the library holds up to MaxFullPages full pages of playlists plus one
MaxFullPages == 1

\* cap on the length of the request log
MaxCalls == MaxFullPages + 17

Min(a, b) == IF a <= b THEN a ELSE b

Range(s) == {s[k] : k \in 1..Len(s)}

SeqsUpTo(S, n) == UNION {[1..k -> S] : k \in 0..n}

\* episode URIs and show ids the catalogue can return
Uris == {"spotify:episode:1", "spotify:episode:2"}

ShowIds == {"show1", "show2"}

\* ------------------------------------------------------------------------
\* Environment variables
\* ------------------------------------------------------------------------
EnvNames == {"SPOTIFY_CLIENT_ID", "SPOTIFY_CLIENT_SECRET", "SPOTIFY_REFRESH_TOKEN",
             "SPOTIFY_USER_ID"}

\* unset, set to the empty string, set to a value
EnvValues == {None, "", "value"}

VARIABLES
    pc,                \* position of the run in main()
    environ,           \* os.environ: name -> value or None
    token,             \* access token held by main()
    user_id,           \* value of SPOTIFY_USER_ID read by main()
    playlists,         \* the remote library (see Library below)
    playlists0,        \* the remote library when the run started
    offset,            \* get_or_create_playlist: offset of the next page
    playlist_id,       \* id returned by get_or_create_playlist (0: none yet)
    query_index,       \* build_episode_list: index of the show being processed
    episode_uris,      \* build_episode_list: accumulated list
    seen,              \* build_episode_list: set of URIs already added
    main_episode_uris, \* main: list returned by build_episode_list
    printed,           \* the summary line printed by main
    error,             \* the exception that ended the run, or None
    calls,             \* log of the remote requests issued, with their status
    picked,            \* per processed show, the URI add_latest obtained or None
    sel_pc, sel_items, sel_now, sel_fresh_hours, sel_uri  \* selector harness

vars == <<pc, environ, token, user_id, playlists, playlists0, offset, playlist_id,
          query_index, episode_uris, seen, main_episode_uris, printed,
          error, calls, picked, sel_pc, sel_items, sel_now, sel_fresh_hours, sel_uri>>

selVars == <<sel_pc, sel_items, sel_now, sel_fresh_hours, sel_uri>>

\* ------------------------------------------------------------------------
\* env()
\* ------------------------------------------------------------------------
\* variant: only an unset variable counts as missing
EnvMissingUnsetOnly(value) == value = None

\* `if not value`: None and the empty string are both falsy
EnvMissing(value) == value = None \/ value = ""

\* env(name) raises RuntimeError
EnvRaises(name) == EnvMissing(environ[name])

\* ------------------------------------------------------------------------
\* HTTP wrappers
\* ------------------------------------------------------------------------
\* requests.Response.raise_for_status: HTTPError for 4xx and 5xx
RaiseForStatus(status) == status >= 400 /\ status < 600

\* variant: only server errors raise
ApiGetRaisesServerErrors(status) == status >= 500 /\ status < 600

ApiGetRaises(status) == RaiseForStatus(status)

ApiPostRaises(status) == RaiseForStatus(status)

ApiPutRaises(status) == status \notin {200, 201} /\ RaiseForStatus(status)

\* statuses the remote answers with, per endpoint
TokenStatuses == {200, 400}

ListStatuses == {200, 401}

CreateStatuses == {201, 403}

SearchStatuses == {200, 429}

EpisodesStatuses == {200, 404}

PutStatuses == {200, 201, 403, 503}

\* a failure status of HTTP: client error or server error
FailureStatus(status) == status \div 100 \in {4, 5}

\* an entry of the request log: the request and whether its status was a failure
Request(req, status) == [req |-> req, failed |-> FailureStatus(status)]

\* ------------------------------------------------------------------------
\* Dates: strptime(release_date, "%Y-%m-%d") and the elapsed time
\* ------------------------------------------------------------------------
\* A release_date is [present, fields]: present is FALSE for a missing/null
\* value; fields are the numbers between the dashes ("2024-01-09" is
\* <<2024, 1, 9>>, "2024" is <<2024>>, "" is <<>>).
IsLeap(y) == (y % 4 = 0 /\ y % 100 # 0) \/ y % 400 = 0

DaysInMonth(y, m) ==
    IF m = 2 THEN (IF IsLeap(y) THEN 29 ELSE 28)
    ELSE IF m \in {4, 6, 9, 11} THEN 30 ELSE 31

\* strptime succeeds (no ValueError)
StrptimeOk(fields) ==
    /\ Len(fields) = 3
    /\ fields[1] \in 1..9999
    /\ fields[2] \in 1..12
    /\ fields[3] \in 1..DaysInMonth(fields[1], fields[2])

DaysBeforeYear(y) == (y - 1) * 365 + (y - 1) \div 4 - (y - 1) \div 100 + (y - 1) \div 400

RECURSIVE DaysBeforeMonth(_, _)
DaysBeforeMonth(y, m) ==
    IF m = 1 THEN 0 ELSE DaysBeforeMonth(y, m - 1) + DaysInMonth(y, m - 1)

ToOrdinal(fields) ==
    DaysBeforeYear(fields[1]) + DaysBeforeMonth(fields[1], fields[2]) + fields[3]

\* minutes from day 1 to the instant; a release date is taken at 12:00 UTC
ReleaseInstant(fields) == ToOrdinal(fields) * 1440 + 12 * 60

NowInstant(now) == ToOrdinal(now.date) * 1440 + now.hour * 60 + now.minute

\* hours_since = (now - release_dt).total_seconds() / 3600, kept in minutes
MinutesSince(now, fields) == NowInstant(now) - ReleaseInstant(fields)

\* variant: the window boundary is excluded
IsFreshStrict(now, fields, fresh_hours) == MinutesSince(now, fields) < fresh_hours * 60

\* hours_since <= fresh_hours
IsFresh(now, fields, fresh_hours) == MinutesSince(now, fields) <= fresh_hours * 60

\* `if not release_date`
NoReleaseDate(release_date) == ~release_date.present \/ release_date.fields = <<>>

\* ------------------------------------------------------------------------
\* get_latest_fresh_episode_uri
\* ------------------------------------------------------------------------
RECURSIVE ScanEpisodes(_, _, _, _)
ScanEpisodes(items, k, now, fresh_hours) ==
    IF k > Len(items) THEN items[1].uri
    ELSE IF NoReleaseDate(items[k].release_date)
         THEN ScanEpisodes(items, k + 1, now, fresh_hours)
    ELSE IF ~StrptimeOk(items[k].release_date.fields)
         THEN ScanEpisodes(items, k + 1, now, fresh_hours)
    ELSE IF IsFresh(now, items[k].release_date.fields, fresh_hours)
         THEN items[k].uri
    ELSE ScanEpisodes(items, k + 1, now, fresh_hours)

get_latest_fresh_episode_uri(items, now, fresh_hours) ==
    IF items = <<>> THEN None ELSE ScanEpisodes(items, 1, now, fresh_hours)

\* ------------------------------------------------------------------------
\* The remote library and GET /me/playlists
\* ------------------------------------------------------------------------
\* The library holds the playlists with ids 1..size, listed in that order.
\* named: the ids of the playlists whose name is PLAYLIST_NAME (the others
\* carry LowerName at odd ids and OtherName at even ids); a playlist holds
\* the items PriorItems(id), left by earlier runs, unless `written` records
\* other items for it.
LowerName == "noticias do dia (auto)"

OtherName == "Discover Weekly"

Library(n, T) == [size |-> n, named |-> T, written |-> [p \in {} |-> <<>>]]

\* playlists at even ids start with two items, those at odd ids start empty
PriorItems(p) ==
    IF p % 2 = 0 THEN <<"spotify:episode:old", "spotify:episode:1">> ELSE <<>>

NameOf(lib, p) ==
    IF p \in lib.named THEN PLAYLIST_NAME
    ELSE IF p % 2 = 1 THEN LowerName ELSE OtherName

ItemsOf(lib, p) == IF p \in DOMAIN lib.written THEN lib.written[p] ELSE PriorItems(p)

\* one page of the listing at the given offset: the entries with their ids,
\* and whether a further page exists ("next")
PlaylistsPage(lib, off) ==
    [items |-> [k \in 1..(IF off < lib.size THEN Min(limit, lib.size - off) ELSE 0) |->
                   [id |-> off + k, name |-> NameOf(lib, off + k)]],
     next |-> off + limit < lib.size]

\* variant: names compared without regard to case
LowerCase(name) == IF name = PLAYLIST_NAME THEN LowerName ELSE name

NameMatchesIgnoreCase(playlist_name, name) == LowerCase(playlist_name) = LowerCase(name)

\* playlist.get("name") == name
NameMatches(playlist_name, name) == playlist_name = name

\* for playlist in page.get("items", []): return the id of the first match (0: none)
RECURSIVE FindByName(_, _, _)
FindByName(items, k, name) ==
    IF k > Len(items) THEN 0
    ELSE IF NameMatches(items[k].name, name) THEN items[k].id
    ELSE FindByName(items, k + 1, name)

\* variant: the offset is not advanced
NextOffsetStuck(off) == off

\* offset += limit
NextOffset(off) == off + limit

\* POST /users/{user_id}/playlists: the remote adds an empty playlist with a new id
CreatedLibrary(lib, name) ==
    [lib EXCEPT !.size = lib.size + 1,
                !.named = IF name = PLAYLIST_NAME THEN lib.named \cup {lib.size + 1}
                          ELSE lib.named,
                !.written = ((lib.size + 1) :> <<>>) @@ lib.written]

\* variant: the URIs are added after the items the playlist holds
append_playlist_items(lib, id, uris) ==
    [lib EXCEPT !.written = (id :> (ItemsOf(lib, id) \o uris)) @@ lib.written]

\* PUT /playlists/{playlist_id}/tracks with {"uris": uris}
replace_playlist_items(lib, id, uris) ==
    [lib EXCEPT !.written = (id :> uris) @@ lib.written]

\* ------------------------------------------------------------------------
\* search_show_id and build_episode_list
\* ------------------------------------------------------------------------
\* items[0]["id"] if items else None
search_show_id(items) == IF items # <<>> THEN items[1].id ELSE None

\* `if not show_id`
ShowNotFound(id) == id = None \/ id = ""

\* variant: the seen-set is not consulted
ShouldAddIgnoringSeen(uri, seenset) == uri # None /\ uri # ""

\* `if uri and uri not in seen`
ShouldAdd(uri, seenset) == uri # None /\ uri # "" /\ uri \notin seenset

\* variant: the URI is put in front
PrependUri(uris, uri) == <<uri>> \o uris

\* episode_uris.append(uri)
AppendUri(uris, uri) == Append(uris, uri)

\* episode_uris[:20]
Truncate(uris) == SubSeq(uris, 1, Min(MaxItems, Len(uris)))

\* variant: the loop stops one show early
LoopDoneEarly(i) == i >= NumShows - 1

\* the for loop over NEWS_SHOW_QUERIES + SPORTS_SHOW_QUERIES has ended
LoopDone(i) == i >= NumShows

\* variant: the write is not skipped
ShouldWriteAlways(uris) == TRUE

\* `if episode_uris:` in main
ShouldWrite(uris) == uris # <<>>

\* ------------------------------------------------------------------------
\* Inputs
\* ------------------------------------------------------------------------
LibrarySizes == {0} \cup {k * limit : k \in 1..MaxFullPages}
                    \cup {k * limit + 1 : k \in 1..MaxFullPages}

\* positions where a playlist may carry the target name
MarkPositions(n) == {2, n} \cap (1..n)

SearchResults == {<<>>} \cup {<<[id |-> s]>> : s \in ShowIds}

Date(fields) == [present |-> TRUE, fields |-> fields]

NoDate == [present |-> FALSE, fields |-> <<>>]

\* in a run: one episode inside the window and one outside it
MainEpisodes == {[uri |-> "spotify:episode:1", release_date |-> Date(<<2024, 1, 9>>)],
                 [uri |-> "spotify:episode:2", release_date |-> Date(<<2023, 12, 1>>)]}

MainEpisodeLists == SeqsUpTo(MainEpisodes, EpisodeLimit)

Clock(date, hour, minute) == [date |-> date, hour |-> hour, minute |-> minute]

MainNows == {Clock(<<2024, 1, 10>>, 12, 0)}

SelDates == {NoDate, Date(<<>>), Date(<<2024>>), Date(<<2024, 2, 30>>),
             Date(<<2024, 1, 12>>), Date(<<2024, 1, 9>>), Date(<<2024, 1, 8>>),
             Date(<<2023, 12, 1>>)}

SelEpisodes == [uri : Uris, release_date : SelDates]

SelEpisodeLists == SeqsUpTo(SelEpisodes, EpisodeLimit)

SelNows == {Clock(<<2024, 1, 10>>, 12, 0), Clock(<<2024, 1, 11>>, 0, 0),
            Clock(<<2024, 1, 11>>, 0, 1)}

SelWindows == {FRESH_HOURS, 24}

\* ------------------------------------------------------------------------
\* Initial states
\* ------------------------------------------------------------------------
LocalsInit ==
    /\ token = None
    /\ user_id = None
    /\ offset = 0
    /\ playlist_id = 0
    /\ query_index = 1
    /\ episode_uris = <<>>
    /\ seen = {}
    /\ main_episode_uris = <<>>
    /\ printed = [msg |-> "", count |-> 0]
    /\ error = None
    /\ calls = <<>>
    /\ picked = <<>>

Init ==
    /\ pc = "get_access_token"
    /\ environ \in [EnvNames -> EnvValues]
    /\ \E n \in LibrarySizes : \E T \in SUBSET MarkPositions(n) :
           playlists = Library(n, T)
    /\ playlists0 = playlists
    /\ LocalsInit
    /\ sel_pc = "off"
    /\ sel_items = <<>>
    /\ sel_now = Clock(<<2024, 1, 10>>, 12, 0)
    /\ sel_fresh_hours = FRESH_HOURS
    /\ sel_uri = None

\* ------------------------------------------------------------------------
\* Steps of main()
\* ------------------------------------------------------------------------
Abort(kind) == pc' = "aborted" /\ error' = kind

\* get_access_token(): three env() reads, then the token request
GetAccessToken ==
    /\ pc = "get_access_token"
    /\ IF \/ EnvRaises("SPOTIFY_CLIENT_ID")
          \/ EnvRaises("SPOTIFY_CLIENT_SECRET")
          \/ EnvRaises("SPOTIFY_REFRESH_TOKEN")
       THEN /\ Abort("ConfigurationError")
            /\ UNCHANGED <<token, calls>>
       ELSE /\ Len(calls) < MaxCalls
            /\ \E status \in TokenStatuses :
                 /\ calls' = Append(calls, Request("token", status))
                 /\ IF RaiseForStatus(status)
                    THEN Abort("RemoteRequestError") /\ UNCHANGED token
                    ELSE token' = "access" /\ pc' = "env_user_id" /\ UNCHANGED error
    /\ UNCHANGED <<environ, user_id, playlists, playlists0, offset, playlist_id,
                   query_index, episode_uris, seen, main_episode_uris,
                   printed, picked, selVars>>

\* user_id = env("SPOTIFY_USER_ID")
ReadUserId ==
    /\ pc = "env_user_id"
    /\ IF EnvRaises("SPOTIFY_USER_ID")
       THEN Abort("ConfigurationError") /\ UNCHANGED user_id
       ELSE user_id' = environ["SPOTIFY_USER_ID"] /\ pc' = "list_playlists"
            /\ UNCHANGED error
    /\ UNCHANGED <<environ, token, playlists, playlists0, offset, playlist_id,
                   query_index, episode_uris, seen, main_episode_uris,
                   printed, calls, picked, selVars>>

\* get_or_create_playlist: one iteration of the while loop
ListPlaylistsPage ==
    /\ pc = "list_playlists"
    /\ Len(calls) < MaxCalls
    /\ \E status \in ListStatuses :
         /\ calls' = Append(calls, Request("list", status))
         /\ IF ApiGetRaises(status)
            THEN Abort("RemoteRequestError") /\ UNCHANGED <<offset, playlist_id>>
            ELSE LET page == PlaylistsPage(playlists, offset)
                     found == FindByName(page.items, 1, PLAYLIST_NAME)
                 IN  /\ UNCHANGED error
                     /\ IF found # 0
                        THEN playlist_id' = found /\ pc' = "add_latest"
                             /\ UNCHANGED offset
                        ELSE IF page.next
                        THEN offset' = NextOffset(offset) /\ pc' = "list_playlists"
                             /\ UNCHANGED playlist_id
                        ELSE pc' = "create_playlist" /\ UNCHANGED <<offset, playlist_id>>
    /\ UNCHANGED <<environ, token, user_id, playlists, playlists0, query_index,
                   episode_uris, seen, main_episode_uris, printed, picked, selVars>>

\* get_or_create_playlist: not found, create a new playlist and return its id
CreatePlaylist ==
    /\ pc = "create_playlist"
    /\ Len(calls) < MaxCalls
    /\ \E status \in CreateStatuses :
         /\ calls' = Append(calls, Request("create", status))
         /\ IF ApiPostRaises(status)
            THEN Abort("RemoteRequestError") /\ UNCHANGED <<playlists, playlist_id>>
            ELSE /\ playlists' = CreatedLibrary(playlists, PLAYLIST_NAME)
                 /\ playlist_id' = playlists.size + 1
                 /\ pc' = "add_latest"
                 /\ UNCHANGED error
    /\ UNCHANGED <<environ, token, user_id, playlists0, offset, query_index,
                   episode_uris, seen, main_episode_uris, printed, picked, selVars>>

\* the end of one add_latest call: next show, or return episode_uris[:20]
FinishShow(uris) ==
    IF LoopDone(query_index)
    THEN pc' = "write" /\ main_episode_uris' = Truncate(uris) /\ UNCHANGED query_index
    ELSE pc' = "add_latest" /\ query_index' = query_index + 1
         /\ UNCHANGED main_episode_uris

\* build_episode_list: one add_latest(query) call, that is the show search,
\* then the episode listing of the show found, then the dedup and the append
AddLatest ==
    /\ pc = "add_latest"
    /\ Len(calls) + 2 <= MaxCalls
    /\ \E s1 \in SearchStatuses :
         IF ApiGetRaises(s1)
         THEN /\ calls' = Append(calls, Request("search", s1))
              /\ Abort("RemoteRequestError")
              /\ UNCHANGED <<query_index, main_episode_uris, picked, episode_uris, seen>>
         ELSE \E found \in SearchResults :
              IF ShowNotFound(search_show_id(found))
              THEN /\ calls' = Append(calls, Request("search", s1))
                   /\ picked' = Append(picked, None)
                   /\ FinishShow(episode_uris)
                   /\ UNCHANGED <<error, episode_uris, seen>>
              ELSE \E s2 \in EpisodesStatuses :
                   /\ calls' = calls \o <<Request("search", s1), Request("episodes", s2)>>
                   /\ IF ApiGetRaises(s2)
                      THEN /\ Abort("RemoteRequestError")
                           /\ UNCHANGED <<query_index, main_episode_uris, picked,
                                          episode_uris, seen>>
                      ELSE \E items \in MainEpisodeLists : \E now \in MainNows :
                           LET uri == get_latest_fresh_episode_uri(items, now, FRESH_HOURS)
                           IN  /\ UNCHANGED error
                               /\ picked' = Append(picked, uri)
                               /\ IF ShouldAdd(uri, seen)
                                  THEN seen' = seen \cup {uri}
                                       /\ episode_uris' = AppendUri(episode_uris, uri)
                                  ELSE UNCHANGED <<seen, episode_uris>>
                               /\ FinishShow(episode_uris')
    /\ UNCHANGED <<environ, token, user_id, playlists, playlists0, offset, playlist_id,
                   printed, selVars>>

\* main: replace the playlist's items, or skip the write when the list is empty
WritePlaylist ==
    /\ pc = "write"
    /\ IF ShouldWrite(main_episode_uris)
       THEN /\ Len(calls) < MaxCalls
            /\ \E status \in PutStatuses :
                 /\ calls' = Append(calls, Request("replace", status))
                 /\ IF ApiPutRaises(status)
                    THEN Abort("RemoteRequestError") /\ UNCHANGED <<playlists, printed>>
                    ELSE /\ playlists' = replace_playlist_items(playlists, playlist_id,
                                                                main_episode_uris)
                         /\ printed' = [msg |-> "Playlist atualizada",
                                        count |-> Len(main_episode_uris)]
                         /\ pc' = "done"
                         /\ UNCHANGED error
       ELSE /\ printed' = [msg |-> "Nenhum episodio fresco encontrado", count |-> 0]
            /\ pc' = "done"
            /\ UNCHANGED <<calls, playlists, error>>
    /\ UNCHANGED <<environ, token, user_id, playlists0, offset, playlist_id, query_index,
                   episode_uris, seen, main_episode_uris, picked, selVars>>

Next ==
    \/ GetAccessToken
    \/ ReadUserId
    \/ ListPlaylistsPage
    \/ CreatePlaylist
    \/ AddLatest
    \/ WritePlaylist

Spec == Init /\ [][Next]_vars

\* the run is scheduled by a single thread: an enabled step is taken
LiveSpec == Spec /\ WF_vars(Next)

\* ------------------------------------------------------------------------
\* The selector on its own: every episode list, clock and window
\* ------------------------------------------------------------------------
SelInit ==
    /\ pc = "idle"
    /\ environ = [n \in EnvNames |-> "value"]
    /\ playlists = Library(0, {})
    /\ playlists0 = playlists
    /\ LocalsInit
    /\ sel_pc = "call"
    /\ sel_items \in SelEpisodeLists
    /\ sel_now \in SelNows
    /\ sel_fresh_hours \in SelWindows
    /\ sel_uri = None

SelectEpisode ==
    /\ sel_pc = "call"
    /\ sel_uri' = get_latest_fresh_episode_uri(sel_items, sel_now, sel_fresh_hours)
    /\ sel_pc' = "returned"
    /\ UNCHANGED <<pc, environ, token, user_id, playlists, playlists0, offset,
                   playlist_id, query_index, episode_uris, seen,
                   main_episode_uris, printed, error, calls, picked, sel_items, sel_now,
                   sel_fresh_hours>>

SelNext == SelectEpisode

SelSpec == SelInit /\ [][SelNext]_vars

\* ------------------------------------------------------------------------
\* Properties
\* ------------------------------------------------------------------------
Count(req) == Cardinality({k \in 1..Len(calls) : calls[k].req = req})

MinOf(S) == CHOOSE x \in S : \A y \in S : x <= y

\* the playlists that existed when the run started are as they were
ExistingUnchanged ==
    /\ playlists.size >= playlists0.size
    /\ \A p \in 1..playlists0.size :
         /\ ItemsOf(playlists, p) = ItemsOf(playlists0, p)
         /\ NameOf(playlists, p) = NameOf(playlists0, p)

\* C1: when a run completes with a non-empty episode list, the items of the
\* target playlist are exactly the list build_episode_list returned, in the
\* same order, whatever the playlist held before.
C1_FullReplacement ==
    (pc = "done" /\ main_episode_uris # <<>>) =>
        /\ playlist_id \in 1..playlists.size
        /\ NameOf(playlists, playlist_id) = PLAYLIST_NAME
        /\ ItemsOf(playlists, playlist_id) = main_episode_uris
        /\ printed.count = Len(main_episode_uris)

\* a completed run over a playlist that existed and held other items
C1_Witness ==
    /\ pc = "done"
    /\ main_episode_uris # <<>>
    /\ playlist_id \in 1..playlists0.size
    /\ ItemsOf(playlists0, playlist_id) # <<>>
    /\ ItemsOf(playlists0, playlist_id) # main_episode_uris

\* C2: when build_episode_list returns the empty list no replace request is
\* issued, every playlist keeps its items and the run ends normally with the
\* "nothing fresh" notice.
C2_EmptyListSkipsWrite ==
    (main_episode_uris = <<>> /\ pc \in {"done", "aborted"} /\ Len(picked) = NumShows) =>
        /\ pc = "done"
        /\ error = None
        /\ Count("replace") = 0
        /\ ExistingUnchanged
        /\ printed = [msg |-> "Nenhum episodio fresco encontrado", count |-> 0]

\* an empty result over an existing target playlist that holds items
C2_Witness ==
    /\ pc = "done"
    /\ main_episode_uris = <<>>
    /\ playlist_id \in 1..playlists0.size
    /\ ItemsOf(playlists, playlist_id) # <<>>

NoDuplicates(s) == \A i, j \in 1..Len(s) : s[i] = s[j] => i = j

\* C3: at every step the accumulated list has no duplicates and its elements
\* are exactly the seen-set; the returned list has each URI at most once.
C3_NoDuplicates ==
    /\ NoDuplicates(episode_uris)
    /\ Range(episode_uris) = seen
    /\ NoDuplicates(main_episode_uris)

\* two shows yielded the same URI and the list was returned
C3_Witness ==
    /\ pc = "write"
    /\ \E i, j \in 1..Len(picked) : i < j /\ picked[i] # None /\ picked[i] = picked[j]
    /\ Len(main_episode_uris) = 2

IsUri(u) == u # None

\* the URIs the processed shows yielded, in configured show order
Yielded == SelectSeq(picked, IsUri)

\* s with every element kept at its first occurrence only
RECURSIVE FirstOccurrences(_)
FirstOccurrences(s) ==
    IF s = <<>> THEN <<>>
    ELSE LET front == SubSeq(s, 1, Len(s) - 1)
         IN  IF s[Len(s)] \in Range(front) THEN FirstOccurrences(front)
             ELSE Append(FirstOccurrences(front), s[Len(s)])

\* C4: the list is in configured show order: it is the sequence of the URIs
\* the shows yielded, each kept at its first occurrence, cut to its first 20
\* entries; shows not found or without episodes contribute nothing.
C4_ShowOrder ==
    /\ episode_uris = FirstOccurrences(Yielded)
    /\ Len(picked) = NumShows =>
         /\ main_episode_uris =
                SubSeq(FirstOccurrences(Yielded), 1, Min(20, Len(FirstOccurrences(Yielded))))
         /\ Len(main_episode_uris) <= 20

\* a show in the middle yields nothing, a later show repeats an earlier URI
C4_Witness ==
    /\ pc = "write"
    /\ picked[1] = "spotify:episode:2"
    /\ picked[2] = None
    /\ picked[3] = "spotify:episode:1"
    /\ picked[4] = "spotify:episode:2"
    /\ main_episode_uris = <<"spotify:episode:2", "spotify:episode:1">>

\* the release date parses as %Y-%m-%d
Parses(release_date) == release_date.present /\ StrptimeOk(release_date.fields)

\* the episodes of sel_items that qualify: date parses, elapsed time <= window
Qualifying ==
    {k \in 1..Len(sel_items) :
        /\ Parses(sel_items[k].release_date)
        /\ NowInstant(sel_now) - ReleaseInstant(sel_items[k].release_date.fields)
              <= sel_fresh_hours * 60}

\* C5: the selector returns none for an empty list, else the URI of the first
\* episode whose date parses and whose elapsed hours are <= the window, else
\* the URI of the first episode; it returns none only for an empty list.
C5_Selector ==
    sel_pc = "returned" =>
        /\ sel_uri = (IF sel_items = <<>> THEN None
                      ELSE IF Qualifying # {} THEN sel_items[MinOf(Qualifying)].uri
                      ELSE sel_items[1].uri)
        /\ (sel_uri = None) <=> (sel_items = <<>>)

\* the second episode is exactly at the window boundary and is selected
C5_Witness ==
    /\ sel_pc = "returned"
    /\ Len(sel_items) = 3
    /\ Qualifying = {2}
    /\ NowInstant(sel_now) - ReleaseInstant(sel_items[2].release_date.fields)
          = sel_fresh_hours * 60
    /\ sel_uri = sel_items[2].uri
    /\ sel_uri # sel_items[1].uri

\* number of pages the listing of n playlists has
Pages(n) == IF n = 0 THEN 1 ELSE (n + limit - 1) \div limit

\* C6: the resolver returns the id of the first playlist, in pagination
\* order, named exactly as the target, stops paging at that page and creates
\* nothing; it creates, once, only after the last page was scanned without a
\* match, and returns the new id.
C6_Resolver ==
    /\ Count("create") <= 1
    /\ Count("create") = 1 =>
         /\ playlists0.named = {}
         /\ Count("list") = Pages(playlists0.size)
    /\ playlist_id # 0 =>
         IF playlists0.named # {}
         THEN /\ playlist_id = MinOf(playlists0.named)
              /\ Count("create") = 0
              /\ Count("list") = (playlist_id - 1) \div limit + 1
         ELSE /\ Count("create") = 1
              /\ playlist_id = playlists0.size + 1
              /\ playlists.size = playlists0.size + 1
              /\ NameOf(playlists, playlist_id) = PLAYLIST_NAME

\* the target is found on page 2, after a same-page lower-case namesake
C6_Witness ==
    /\ playlist_id = limit + 1
    /\ Count("list") = 2
    /\ Count("create") = 0
    /\ NameOf(playlists0, 1) = LowerName

\* an environment value is unset or empty
Unset(name) == environ[name] \in {None, ""}

TokenEnvUnset ==
    Unset("SPOTIFY_CLIENT_ID") \/ Unset("SPOTIFY_CLIENT_SECRET")
        \/ Unset("SPOTIFY_REFRESH_TOKEN")

\* C7 (as stated): a missing or empty required environment value ends the run
\* with a configuration error before any network call has been issued.
C7_NoCallBeforeConfigError ==
    (\E name \in EnvNames : Unset(name)) =>
        /\ calls = <<>>
        /\ pc # "get_access_token" => (pc = "aborted" /\ error = "ConfigurationError")

\* C7 (amended): a missing or empty client id, client secret or refresh
\* credential ends the run with a configuration error before any network
\* call; a missing or empty user id (the other three set) is detected only
\* after the token exchange: that one request is issued, and if it succeeds
\* the run ends with a configuration error before any other request.  In no
\* case is a request issued after the token exchange or a playlist changed.
C7_ConfigErrorAmended ==
    /\ (TokenEnvUnset /\ pc # "get_access_token") =>
          /\ pc = "aborted"
          /\ error = "ConfigurationError"
          /\ calls = <<>>
    /\ (~TokenEnvUnset /\ Unset("SPOTIFY_USER_ID") /\ pc # "get_access_token") =>
          /\ Len(calls) = 1
          /\ calls[1].req = "token"
          /\ pc \in {"env_user_id", "aborted"}
          /\ pc = "aborted" => (error = "ConfigurationError" <=> ~calls[1].failed)
    /\ error = "ConfigurationError" =>
          /\ \E name \in EnvNames : Unset(name)
          /\ playlists = playlists0
    /\ (pc \notin {"get_access_token", "env_user_id", "aborted"}) =>
          \A name \in EnvNames : ~Unset(name)

\* the user id is empty: the configuration error comes after the token exchange
C7_Witness ==
    /\ error = "ConfigurationError"
    /\ environ["SPOTIFY_USER_ID"] = ""
    /\ Len(calls) = 1
    /\ calls[1].req = "token"

\* C8: a remote call answered with a failure status ends the run there: the
\* failed request is the last request of the run (no retry, no later
\* request, no further show processed) and the run ends in an error, with
\* neither the success count nor the "nothing fresh" notice printed.
C8_AbortOnFailure ==
    /\ \A k \in 1..Len(calls) :
         calls[k].failed =>
            /\ k = Len(calls)
            /\ pc = "aborted"
            /\ error = "RemoteRequestError"
            /\ printed.msg = ""
            /\ Count(calls[k].req) = Cardinality({j \in 1..k - 1 : calls[j].req = calls[k].req}) + 1
    /\ pc = "aborted" => (error # None /\ printed.msg = "")
    /\ pc = "done" => error = None

\* the search of a show in the middle of the list fails: the run is aborted
\* with the remaining shows unprocessed
C8_Witness ==
    /\ pc = "aborted"
    /\ Len(picked) \in 2..NumShows - 2
    /\ calls[Len(calls)].req = "search"
    /\ calls[Len(calls)].failed
    /\ Count("search") = Len(picked) + 1

C10_ReplaceLast ==
    /\ Count("replace") <= 1
    /\ \A k \in 1..Len(calls) :
         calls[k].req = "replace" =>
            /\ k = Len(calls)
            /\ \A j \in 1..k - 1 : ~calls[j].failed
            /\ calls[1].req = "token"
            /\ playlist_id # 0
            /\ Count("search") = NumShows
            /\ Len(picked) = NumShows
            /\ Count("episodes") = Cardinality({j \in 1..k : calls[j].req = "episodes"})
    /\ Count("replace") = 0 => ExistingUnchanged
    /\ playlists.size <= playlists0.size + 1
    /\ playlists.size = playlists0.size + Count("create")
          - (IF Count("create") = 1 /\ pc = "aborted" /\ calls[Len(calls)].req = "create"
             THEN 1 ELSE 0)

\* the replace request closes a run that created the playlist and searched
\* every show
C10_Witness ==
    /\ pc = "done"
    /\ calls[Len(calls)].req = "replace"
    /\ Count("create") = 1
    /\ Count("search") = NumShows
    /\ Count("episodes") < NumShows

====
